---- MODULE Spec2Model ----
(***************************************************************************)
(* Model of maflib/sort_order.py: the SortOrder registry, the coordinate   *)
(* and barcode sort keys, SortOrderChecker and SortOrderEnforcingIterator. *)
(*                                                                         *)
(* Data encoding.  Scalars (chromosome names, positions, barcodes) are     *)
(* small integers standing for values in their natural order; Python's     *)
(* None is the integer None below.  An optional object (the previous       *)
(* record, the contig list, the FASTA index path) is a sequence: empty for *)
(* None/absent.  Records are ordinary objects: always truthy.              *)
(***************************************************************************)
EXTENDS Integers, Sequences, FiniteSets, TLC

VARIABLES
    pc,              \* position of the driving program
    sort_order_name, \* the argument given to SortOrder.find
    found,           \* what SortOrder.find returned or raised
    sort_order,      \* the SortOrder instance: its class and its _contigs
    ctor,            \* the arguments the SortOrder instance was built with
    _sort_f,         \* SortOrderChecker._sort_f
    _last_rec,       \* SortOrderChecker._last_rec
    rec,             \* the argument of the last add / the two records of a comparison
    prev,            \* _last_rec as it was when the last add was called
    outcome,         \* what the last add / next / comparison did
    accepted,        \* the records accepted so far, in order
    nadds,           \* the number of add calls made
    _iter,           \* the part of the wrapped sequence not yet pulled
    wrapped,         \* the wrapped sequence as given
    yielded,         \* the records the enforcing iterator has returned
    raised           \* whether some next call has raised an error other than StopIteration

vars == << pc, sort_order_name, found, sort_order, ctor, _sort_f, _last_rec, rec,
           prev, outcome, accepted, nadds, _iter, wrapped, yielded, raised >>

-----------------------------------------------------------------------------
(* Bounds *)

MaxPos == 1
MaxAdds == 3
MaxLen == 3

-----------------------------------------------------------------------------
(* Values *)

None == -1

\* Chromosome names in natural order; 3 is in no contig list used here.
Chromosomes == {1, 2, 3}
Barcodes == {0, 1}
Positions == 0..MaxPos

\* An absent optional argument / attribute (Python None).
Absent == << >>
Some(x) == << x >>

\* Python truthiness of an optional list: None and [] are both falsy.
Truthy(opt) == Len(opt) > 0 /\ Len(opt[1]) > 0

NewRecord(loc, c, s, e, t, n) ==
    [locatable |-> loc, chromosome |-> c, start |-> s, end |-> e,
     tumor_barcode |-> t, normal_barcode |-> n]

-----------------------------------------------------------------------------
(* SortOrder registry *)

all == << "class Unknown", "class Unsorted", "class BarcodesAndCoordinate", "class Coordinate" >>

name(cls) ==
    CASE cls = "class Unknown" -> "Unknown"
      [] cls = "class Unsorted" -> "Unsorted"
      [] cls = "class BarcodesAndCoordinate" -> "BarcodesAndCoordinate"
      [] cls = "class Coordinate" -> "Coordinate"

\* [s[i] : i such that Test(s[i])], in order
RECURSIVE MatchingClasses(_, _)
MatchingClasses(s, n) ==
    IF s = << >> THEN << >>
    ELSE IF name(Head(s)) = n THEN << Head(s) >> \o MatchingClasses(Tail(s), n)
    ELSE MatchingClasses(Tail(s), n)

RECURSIVE Names(_)
Names(s) == IF s = << >> THEN << >> ELSE << name(Head(s)) >> \o Names(Tail(s))

\* find falling back on the first registered class when no name matches
find_Default(sort_order_name_) ==
    LET matches == MatchingClasses(all, sort_order_name_)
    IN  [error |-> "", cls |-> IF matches = << >> THEN all[1] ELSE matches[1],
         msg_name |-> "", msg_options |-> << >>]

find(sort_order_name_) ==
    LET matches == MatchingClasses(all, sort_order_name_)
    IN  IF matches = << >>
        THEN [error |-> "ValueError: Could not find sort order", cls |-> "",
              msg_name |-> sort_order_name_, msg_options |-> Names(all)]
        ELSE [error |-> "", cls |-> matches[1], msg_name |-> "", msg_options |-> << >>]

-----------------------------------------------------------------------------
(* Sort keys *)

Sign(this, that) == (IF this > that THEN 1 ELSE 0) - (IF this < that THEN 1 ELSE 0)

\* compare with a null ordered before a non-null value
compare_NullFirst(this, that) ==
    IF this = None /\ that = None THEN 0
    ELSE IF this = None THEN -1
    ELSE IF that = None THEN 1
    ELSE Sign(this, that)

compare(this, that) ==
    IF this = None /\ that = None THEN 0
    ELSE IF this = None THEN 1
    ELSE IF that = None THEN -1
    ELSE Sign(this, that)

\* list.index: the 0-based position of the first occurrence; None when absent
index(contigs, chromosome) ==
    IF \E i \in 1..Len(contigs) : contigs[i] = chromosome
    THEN (CHOOSE i \in 1..Len(contigs) :
            /\ contigs[i] = chromosome
            /\ \A j \in 1..(i - 1) : contigs[j] # chromosome) - 1
    ELSE None

KeyError(kind, chromosome, contigs) ==
    [error |-> kind, chromosome |-> None, start |-> None, end |-> None,
     tumor_barcode |-> None, normal_barcode |-> None,
     msg_name |-> chromosome, msg_contigs |-> contigs]

\* _CoordinateKey.__init__ checking the contig but keeping its name as the chromosome
_CoordinateKey_NaturalChromosome(record, contigs) ==
    IF ~record.locatable
    THEN KeyError("ValueError: not a subclass of Locatable", None, << >>)
    ELSE IF Truthy(contigs) /\ index(contigs[1], record.chromosome) = None
    THEN KeyError("ValueError: Could not find contig", record.chromosome, contigs[1])
    ELSE [error |-> "", chromosome |-> record.chromosome,
          start |-> record.start, end |-> record.end,
          tumor_barcode |-> None, normal_barcode |-> None,
          msg_name |-> None, msg_contigs |-> << >>]

\* _CoordinateKey.__init__ ranking an unlisted contig after the listed ones instead of failing
_CoordinateKey_UnlistedLast(record, contigs) ==
    IF ~record.locatable
    THEN KeyError("ValueError: not a subclass of Locatable", None, << >>)
    ELSE [error |-> "",
          chromosome |-> IF ~Truthy(contigs) THEN record.chromosome
                         ELSE IF index(contigs[1], record.chromosome) = None
                         THEN Len(contigs[1])
                         ELSE index(contigs[1], record.chromosome),
          start |-> record.start, end |-> record.end,
          tumor_barcode |-> None, normal_barcode |-> None,
          msg_name |-> None, msg_contigs |-> << >>]

\* _CoordinateKey.__init__; contigs is the optional list SortOrder holds
_CoordinateKey(record, contigs) ==
    IF ~record.locatable
    THEN KeyError("ValueError: not a subclass of Locatable", None, << >>)
    ELSE IF Truthy(contigs) /\ index(contigs[1], record.chromosome) = None
    THEN KeyError("ValueError: Could not find contig", record.chromosome, contigs[1])
    ELSE [error |-> "",
          chromosome |-> IF Truthy(contigs) THEN index(contigs[1], record.chromosome)
                         ELSE record.chromosome,
          start |-> record.start, end |-> record.end,
          tumor_barcode |-> None, normal_barcode |-> None,
          msg_name |-> None, msg_contigs |-> << >>]

_CoordinateKey_cmp(self, other) ==
    LET d1 == compare(self.chromosome, other.chromosome)
        d2 == IF d1 = 0 THEN compare(self.start, other.start) ELSE d1
        d3 == IF d2 = 0 THEN compare(self.end, other.end) ELSE d2
    IN  d3

\* _BarcodesAndCoordinateKey.__init__
_BarcodesAndCoordinateKey(record, contigs) ==
    LET super == _CoordinateKey(record, contigs)
    IN  IF super.error # "" THEN super
        ELSE [super EXCEPT !.tumor_barcode = record.tumor_barcode,
                           !.normal_barcode = record.normal_barcode]

\* the barcode key comparing the coordinates before the barcodes
_BarcodesAndCoordinateKey_cmp_CoordinateFirst(self, other) ==
    LET d1 == _CoordinateKey_cmp(self, other)
        d2 == IF d1 = 0 THEN compare(self.tumor_barcode, other.tumor_barcode) ELSE d1
        d3 == IF d2 = 0 THEN compare(self.normal_barcode, other.normal_barcode) ELSE d2
    IN  d3

_BarcodesAndCoordinateKey_cmp(self, other) ==
    LET d1 == compare(self.tumor_barcode, other.tumor_barcode)
        d2 == IF d1 = 0 THEN compare(self.normal_barcode, other.normal_barcode) ELSE d1
        d3 == IF d2 = 0 THEN _CoordinateKey_cmp(self, other) ELSE d2
    IN  d3

\* Coordinate.__init__: fasta_index is the optional index file (given as the
\* first column of its lines), contigs the optional explicit list.
Coordinate_init(fasta_index, contigs) ==
    IF Len(fasta_index) > 0 THEN fasta_index
    ELSE IF Truthy(contigs) THEN contigs
    ELSE Absent

\* cls(fasta_index, contigs): Unknown and Unsorted ignore their arguments
NewSortOrder(cls, fasta_index, contigs) ==
    [cls |-> cls,
     _contigs |-> IF cls \in {"class Coordinate", "class BarcodesAndCoordinate"}
                  THEN Coordinate_init(fasta_index, contigs) ELSE Absent]

\* sort_key with Unsorted handing out the coordinate key
sort_key_UnsortedAsCoordinate(order) ==
    CASE order.cls \in {"class Coordinate", "class Unsorted"} -> "_CoordinateKey"
      [] order.cls = "class BarcodesAndCoordinate" -> "_BarcodesAndCoordinateKey"
      [] OTHER -> "NotImplementedError"

\* sort_order.sort_key(): the key function, named by its key class
sort_key(order) ==
    CASE order.cls = "class Coordinate" -> "_CoordinateKey"
      [] order.cls = "class BarcodesAndCoordinate" -> "_BarcodesAndCoordinateKey"
      [] OTHER -> "NotImplementedError"

\* applying the key function sort_f of order to record
key(sort_f, order, record) ==
    IF sort_f = "_BarcodesAndCoordinateKey"
    THEN _BarcodesAndCoordinateKey(record, order._contigs)
    ELSE _CoordinateKey(record, order._contigs)

\* SortOrderKey.__cmp__ dispatched on the key class
cmp(sort_f, self, other) ==
    IF sort_f = "_BarcodesAndCoordinateKey"
    THEN _BarcodesAndCoordinateKey_cmp(self, other)
    ELSE _CoordinateKey_cmp(self, other)

\* SortOrderKey.__lt__
lt(sort_f, self, other) == cmp(sort_f, self, other) < 0

-----------------------------------------------------------------------------
(* SortOrderChecker *)

OrderViolation == "ValueError: Records out of order"

\* SortOrderChecker.__init__: the NotImplementedError of Unknown and Unsorted
\* is caught and leaves no key function
SortOrderChecker_init(order) ==
    [_last_rec |-> Absent,
     _sort_f |-> IF sort_key(order) = "NotImplementedError" THEN "None" ELSE sort_key(order)]

Failed(status, msg, last_rec) ==
    [status |-> status, msg |-> msg, keys |-> << >>, diff |-> 0, _last_rec |-> last_rec]

\* __iadd__ rejecting a record whose key equals the previous record's key
iadd_RejectEqual(sort_f, order, last_rec, r) ==
    IF Len(last_rec) > 0 /\ sort_f # "None"
    THEN LET rec_key == key(sort_f, order, r)
             last_rec_key == key(sort_f, order, last_rec[1])
         IN  IF rec_key.error # ""
             THEN Failed(rec_key.error, << rec_key.msg_name, rec_key.msg_contigs >>, last_rec)
             ELSE IF last_rec_key.error # ""
             THEN Failed(last_rec_key.error,
                         << last_rec_key.msg_name, last_rec_key.msg_contigs >>, last_rec)
             ELSE IF ~lt(sort_f, last_rec_key, rec_key)
             THEN Failed(OrderViolation, << last_rec[1], r >>, last_rec)
             ELSE [status |-> "ok", msg |-> << >>, keys |-> << >>, diff |-> 0,
                   _last_rec |-> Some(r)]
    ELSE [status |-> "ok", msg |-> << >>, keys |-> << >>, diff |-> 0, _last_rec |-> Some(r)]

\* __iadd__ storing the record before it raises the order violation
iadd_StoreRejected(sort_f, order, last_rec, r) ==
    IF Len(last_rec) > 0 /\ sort_f # "None"
    THEN LET rec_key == key(sort_f, order, r)
             last_rec_key == key(sort_f, order, last_rec[1])
         IN  IF rec_key.error # ""
             THEN Failed(rec_key.error, << rec_key.msg_name, rec_key.msg_contigs >>, last_rec)
             ELSE IF last_rec_key.error # ""
             THEN Failed(last_rec_key.error,
                         << last_rec_key.msg_name, last_rec_key.msg_contigs >>, last_rec)
             ELSE IF lt(sort_f, rec_key, last_rec_key)
             THEN Failed(OrderViolation, << last_rec[1], r >>, Some(r))
             ELSE [status |-> "ok", msg |-> << >>, keys |-> << >>, diff |-> 0,
                   _last_rec |-> Some(r)]
    ELSE [status |-> "ok", msg |-> << >>, keys |-> << >>, diff |-> 0, _last_rec |-> Some(r)]

\* __iadd__ deriving the record's key before it looks for a previous record
iadd_KeyFirst(sort_f, order, last_rec, r) ==
    IF sort_f # "None" /\ key(sort_f, order, r).error # ""
    THEN Failed(key(sort_f, order, r).error,
                << key(sort_f, order, r).msg_name, key(sort_f, order, r).msg_contigs >>,
                last_rec)
    ELSE IF Len(last_rec) > 0 /\ sort_f # "None"
    THEN LET rec_key == key(sort_f, order, r)
             last_rec_key == key(sort_f, order, last_rec[1])
         IN  IF lt(sort_f, rec_key, last_rec_key)
             THEN Failed(OrderViolation, << last_rec[1], r >>, last_rec)
             ELSE [status |-> "ok", msg |-> << >>, keys |-> << >>, diff |-> 0,
                   _last_rec |-> Some(r)]
    ELSE [status |-> "ok", msg |-> << >>, keys |-> << >>, diff |-> 0, _last_rec |-> Some(r)]

\* SortOrderChecker.__iadd__ (add): what the call does and _last_rec after it
iadd(sort_f, order, last_rec, r) ==
    IF Len(last_rec) > 0 /\ sort_f # "None"
    THEN LET rec_key == key(sort_f, order, r)
             last_rec_key == key(sort_f, order, last_rec[1])
         IN  IF rec_key.error # ""
             THEN Failed(rec_key.error, << rec_key.msg_name, rec_key.msg_contigs >>, last_rec)
             ELSE IF last_rec_key.error # ""
             THEN Failed(last_rec_key.error,
                         << last_rec_key.msg_name, last_rec_key.msg_contigs >>, last_rec)
             ELSE IF lt(sort_f, rec_key, last_rec_key)
             THEN Failed(OrderViolation, << last_rec[1], r >>, last_rec)
             ELSE [status |-> "ok", msg |-> << >>, keys |-> << >>, diff |-> 0,
                   _last_rec |-> Some(r)]
    ELSE [status |-> "ok", msg |-> << >>, keys |-> << >>, diff |-> 0, _last_rec |-> Some(r)]

Outcome(result) ==
    [status |-> result.status, msg |-> result.msg, keys |-> result.keys, diff |-> result.diff]

-----------------------------------------------------------------------------
(* SortOrderEnforcingIterator *)

\* __next__ returning the record without giving it to the checker
next_Unchecked(sort_f, order, last_rec, iter) ==
    IF iter = << >>
    THEN [status |-> "StopIteration", msg |-> << >>, keys |-> << >>, diff |-> 0,
          _last_rec |-> last_rec, _iter |-> iter, pulled |-> << >>, returned |-> << >>]
    ELSE [status |-> "ok", msg |-> << >>, keys |-> << >>, diff |-> 0,
          _last_rec |-> last_rec, _iter |-> Tail(iter), pulled |-> << Head(iter) >>,
          returned |-> << Head(iter) >>]

\* SortOrderEnforcingIterator.__next__ (next): rec = next(self._iter), whose
\* StopIteration passes through; self._checker.add(rec), whose error passes
\* through; return rec.
next(sort_f, order, last_rec, iter) ==
    IF iter = << >>
    THEN [status |-> "StopIteration", msg |-> << >>, keys |-> << >>, diff |-> 0,
          _last_rec |-> last_rec, _iter |-> iter, pulled |-> << >>, returned |-> << >>]
    ELSE LET r == Head(iter)
             added == iadd(sort_f, order, last_rec, r)
         IN  [status |-> added.status, msg |-> added.msg, keys |-> << >>, diff |-> 0,
              _last_rec |-> added._last_rec, _iter |-> Tail(iter), pulled |-> << r >>,
              returned |-> IF added.status = "ok" THEN << r >> ELSE << >>]

-----------------------------------------------------------------------------
(* Inputs *)

ContigLists == { << >>, << 2, 1 >> }

\* (fasta_index, contigs) as given to Coordinate(...): at most one of them
CtorArgs ==
    { [fasta_index |-> Absent, contigs |-> Absent] }
    \cup { [fasta_index |-> Absent, contigs |-> Some(l)] : l \in ContigLists }
    \cup { [fasta_index |-> Some(l), contigs |-> Absent] : l \in ContigLists }

OrNone(S) == S \cup {None}

NotLocatable == NewRecord(FALSE, None, None, None, None, None)

\* records for key comparison: every field may be null
CoordinateRecords ==
    { NewRecord(TRUE, c, s, e, None, None) :
        c \in OrNone(Chromosomes), s \in OrNone(Positions), e \in OrNone(Positions) }
    \cup { NotLocatable }

BarcodeRecords ==
    { NewRecord(TRUE, c, s, e, t, n) :
        c \in OrNone(Chromosomes), s \in OrNone(Positions), e \in OrNone(Positions),
        t \in OrNone(Barcodes), n \in OrNone({0}) }
    \cup { NotLocatable }

KeyRecords(cls) ==
    IF cls = "class BarcodesAndCoordinate" THEN BarcodeRecords ELSE CoordinateRecords

NoOrder == [cls |-> "", _contigs |-> Absent]
NoCtor == [fasta_index |-> Absent, contigs |-> Absent]
NoFound == [error |-> "", cls |-> "", msg_name |-> "", msg_options |-> << >>]
NoOutcome == [status |-> "", msg |-> << >>, keys |-> << >>, diff |-> 0]

-----------------------------------------------------------------------------
(* Key derivation and comparison of two records *)

InitKey ==
    /\ pc = "new_order"
    /\ sort_order_name = ""
    /\ found = NoFound
    /\ sort_order = NoOrder
    /\ ctor = NoCtor
    /\ _sort_f = ""
    /\ _last_rec = Absent
    /\ rec = << >>
    /\ prev = Absent
    /\ outcome = NoOutcome
    /\ accepted = << >>
    /\ nadds = 0
    /\ _iter = << >>
    /\ wrapped = << >>
    /\ yielded = << >>
    /\ raised = FALSE

\* order = cls(fasta_index, contigs); sort_f = order.sort_key()
KeyOrder(cls, args) ==
    /\ pc = "new_order"
    /\ sort_order' = NewSortOrder(cls, args.fasta_index, args.contigs)
    /\ ctor' = args
    /\ _sort_f' = sort_key(sort_order')
    /\ pc' = "sort_key"
    /\ UNCHANGED << sort_order_name, found, _last_rec, rec, prev, outcome, accepted,
                    nadds, _iter, wrapped, yielded, raised >>

\* ka = sort_f(a); kb = sort_f(b); ka.__cmp__(kb)
KeyCompare(a, b) ==
    /\ pc = "sort_key"
    /\ LET ka == key(_sort_f, sort_order, a)
           kb == key(_sort_f, sort_order, b)
       IN  /\ rec' = << a, b >>
           /\ outcome' =
                IF ka.error # "" THEN [status |-> ka.error, msg |-> << ka.msg_name, ka.msg_contigs >>,
                                       keys |-> << ka >>, diff |-> 0]
                ELSE IF kb.error # "" THEN [status |-> kb.error, msg |-> << kb.msg_name, kb.msg_contigs >>,
                                            keys |-> << ka, kb >>, diff |-> 0]
                ELSE [status |-> "compared", msg |-> << >>, keys |-> << ka, kb >>,
                      diff |-> cmp(_sort_f, ka, kb)]
    /\ pc' = "compared"
    /\ UNCHANGED << sort_order_name, found, sort_order, ctor, _sort_f, _last_rec, prev,
                    accepted, nadds, _iter, wrapped, yielded, raised >>

DeriveOrder ==
    /\ pc = "new_order"
    /\ \E cls \in {"class Coordinate", "class BarcodesAndCoordinate"}, args \in CtorArgs :
          KeyOrder(cls, args)

CompareKeys ==
    /\ pc = "sort_key"
    /\ \E a \in KeyRecords(sort_order.cls), b \in KeyRecords(sort_order.cls) :
          KeyCompare(a, b)

NextKey == DeriveOrder \/ CompareKeys

SpecKey == InitKey /\ [][NextKey]_vars

-----------------------------------------------------------------------------
(* Properties of key derivation and comparison (SpecKey) *)

Compared == pc = "compared" /\ outcome.status = "compared"
UnknownContig == "ValueError: Could not find contig"
MissingCapability == "ValueError: not a subclass of Locatable"

\* the contig list the order was given, whichever way; << >> when none was
SuppliedList(args) ==
    IF Len(args.fasta_index) > 0 THEN args.fasta_index[1]
    ELSE IF Len(args.contigs) > 0 THEN args.contigs[1]
    ELSE << >>
Supplied(args) == Len(args.fasta_index) > 0 \/ Len(args.contigs) > 0

InList(l, c) == \E i \in 1..Len(l) : l[i] = c
\* 1-based position of the first occurrence of c in l
RankIn(l, c) == CHOOSE i \in 1..Len(l) : l[i] = c /\ \A j \in 1..(i - 1) : l[j] # c

\* the expected three-way result on one field: non-null < null, nulls equal
NullLast(x, y) ==
    IF x = y THEN 0
    ELSE IF x = None THEN 1
    ELSE IF y = None THEN -1
    ELSE IF x < y THEN -1 ELSE 1

\* C4: under Coordinate with a contig list, the comparison of two records on
\* listed contigs is lexicographic by (rank of the contig in the list, start, end):
\* the earlier contig is less whatever start and end, then the lower start
\* whatever the end, then the lower end; the result is 0 exactly when the three
\* fields are equal.
C4_CoordinateLexicographic ==
    (/\ pc = "compared"
     /\ sort_order.cls = "class Coordinate"
     /\ Supplied(ctor)
     /\ rec[1].locatable /\ rec[2].locatable
     /\ InList(SuppliedList(ctor), rec[1].chromosome)
     /\ InList(SuppliedList(ctor), rec[2].chromosome))
    => LET a == rec[1]
           b == rec[2]
           ra == RankIn(SuppliedList(ctor), a.chromosome)
           rb == RankIn(SuppliedList(ctor), b.chromosome)
       IN  /\ outcome.status = "compared"
           /\ ra < rb => outcome.diff < 0
           /\ ra > rb => outcome.diff > 0
           /\ (ra = rb /\ a.start # None /\ b.start # None /\ a.start < b.start)
                 => outcome.diff < 0
           /\ (ra = rb /\ a.start = b.start /\ a.end # None /\ b.end # None /\ a.end < b.end)
                 => outcome.diff < 0
           /\ outcome.diff = 0
                 <=> (a.chromosome = b.chromosome /\ a.start = b.start /\ a.end = b.end)

\* the earlier contig (2, first in the list) has the higher name and the higher start
C4_Witness ==
    /\ Compared
    /\ sort_order.cls = "class Coordinate"
    /\ SuppliedList(ctor) = << 2, 1 >>
    /\ rec[1].chromosome = 2 /\ rec[2].chromosome = 1
    /\ rec[1].start = 1 /\ rec[2].start = 0
    /\ outcome.diff = -1

\* C5: under BarcodesAndCoordinate, different tumor barcodes decide alone;
\* with equal tumor barcodes the normal barcode decides; with both equal the
\* result is that of the Coordinate comparison of the same two records under
\* the same contig list.
C5_BarcodesFirst ==
    (Compared /\ sort_order.cls = "class BarcodesAndCoordinate")
    => LET a == rec[1]
           b == rec[2]
       IN  /\ a.tumor_barcode # b.tumor_barcode
                 => outcome.diff = NullLast(a.tumor_barcode, b.tumor_barcode)
           /\ (a.tumor_barcode = b.tumor_barcode /\ a.normal_barcode # b.normal_barcode)
                 => outcome.diff = NullLast(a.normal_barcode, b.normal_barcode)
           /\ (a.tumor_barcode = b.tumor_barcode /\ a.normal_barcode = b.normal_barcode)
                 => outcome.diff = _CoordinateKey_cmp(_CoordinateKey(a, sort_order._contigs),
                                                      _CoordinateKey(b, sort_order._contigs))

\* the lower tumor barcode wins against a later contig, a higher start and a null normal barcode
C5_Witness ==
    /\ Compared
    /\ sort_order.cls = "class BarcodesAndCoordinate"
    /\ SuppliedList(ctor) = << 2, 1 >>
    /\ rec[1].tumor_barcode = 0 /\ rec[2].tumor_barcode = 1
    /\ rec[1].normal_barcode = None /\ rec[2].normal_barcode = 0
    /\ rec[1].chromosome = 1 /\ rec[2].chromosome = 2
    /\ rec[1].start = 1 /\ rec[2].start = 0
    /\ outcome.diff = -1

\* the key fields of a record in comparison order, by key class
Fields(cls, r) ==
    IF cls = "class BarcodesAndCoordinate"
    THEN << r.tumor_barcode, r.normal_barcode, r.chromosome, r.start, r.end >>
    ELSE << r.chromosome, r.start, r.end >>

\* the position of the chromosome among the key fields
ChromosomeField(cls) == IF cls = "class BarcodesAndCoordinate" THEN 3 ELSE 1

\* the null rule at field i of the two compared records, given equal earlier fields
NullRuleAt(fa, fb, i) ==
    (\A j \in 1..(i - 1) : fa[j] = fb[j])
    => /\ (fa[i] # None /\ fb[i] = None) => (outcome.status = "compared" /\ outcome.diff = -1)
       /\ (fa[i] = None /\ fb[i] # None) => (outcome.status = "compared" /\ outcome.diff = 1)
       /\ (fa[i] = None /\ fb[i] = None /\ \A j \in (i + 1)..Len(fa) : fa[j] = fb[j])
             => (outcome.status = "compared" /\ outcome.diff = 0)

\* every non-null chromosome of the two records resolves under the order's list
Resolvable(r) ==
    r.locatable /\ (r.chromosome # None /\ SuppliedList(ctor) # << >>
                      => InList(SuppliedList(ctor), r.chromosome))

\* C6 as stated: the null rule holds at every key field, chromosome included,
\* with or without a configured contig list.
C6_Original ==
    (pc = "compared" /\ Resolvable(rec[1]) /\ Resolvable(rec[2]))
    => LET fa == Fields(sort_order.cls, rec[1])
           fb == Fields(sort_order.cls, rec[2])
       IN  \A i \in 1..Len(fa) : NullRuleAt(fa, fb, i)

\* C6 amended: the null rule holds at every key field of two records whose keys
\* derive, that is at the barcodes, start and end always and at the chromosome
\* when no non-empty contig list is configured; with a non-empty contig list a
\* null chromosome is looked up like a name, is not found, and key derivation
\* fails with the unknown-contig error.
C6_NullRule ==
    (pc = "compared" /\ Resolvable(rec[1]) /\ Resolvable(rec[2]))
    => LET fa == Fields(sort_order.cls, rec[1])
           fb == Fields(sort_order.cls, rec[2])
           c  == ChromosomeField(sort_order.cls)
       IN  IF SuppliedList(ctor) # << >> /\ (fa[c] = None \/ fb[c] = None)
           THEN /\ outcome.status = UnknownContig
                /\ outcome.msg = << None, SuppliedList(ctor) >>
           ELSE \A i \in 1..Len(fa) : NullRuleAt(fa, fb, i)

\* without a contig list a named chromosome sorts before a null one, later fields notwithstanding
C6_Witness ==
    /\ Compared
    /\ SuppliedList(ctor) = << >>
    /\ rec[1].tumor_barcode = rec[2].tumor_barcode
    /\ rec[1].normal_barcode = rec[2].normal_barcode
    /\ rec[1].chromosome = 3 /\ rec[2].chromosome = None
    /\ rec[1].start = None /\ rec[2].start = 0
    /\ outcome.diff = -1

\* the chromosome of the first record's key, when the key derived
KeyDerived == pc = "compared" /\ Len(outcome.keys) > 0 /\ outcome.keys[1].error = ""

\* C8 as stated: with a supplied contig list a listed chromosome gets its
\* position as rank and an unlisted one fails with the unknown-contig error
\* carrying the name and the list; the natural order is used only when no
\* list is supplied.
C8_Original ==
    (pc = "compared" /\ rec[1].locatable)
    => LET a == rec[1]
           l == SuppliedList(ctor)
       IN  /\ (Supplied(ctor) /\ InList(l, a.chromosome))
                 => (KeyDerived /\ outcome.keys[1].chromosome = RankIn(l, a.chromosome) - 1)
           /\ (Supplied(ctor) /\ ~InList(l, a.chromosome))
                 => (outcome.status = UnknownContig /\ outcome.msg = << a.chromosome, l >>)
           /\ ~Supplied(ctor)
                 => (KeyDerived /\ outcome.keys[1].chromosome = a.chromosome)

\* C8 amended: with a supplied non-empty contig list a listed chromosome gets
\* its (0-based, first) position as rank and an unlisted one fails with the
\* unknown-contig error carrying the name and the list; when no list or an
\* empty list is supplied the chromosome is kept as it is, without lookup.
C8_ContigResolution ==
    (pc = "compared" /\ rec[1].locatable)
    => LET a == rec[1]
           l == SuppliedList(ctor)
       IN  /\ (l # << >> /\ InList(l, a.chromosome))
                 => (KeyDerived /\ outcome.keys[1].chromosome = RankIn(l, a.chromosome) - 1)
           /\ (l # << >> /\ ~InList(l, a.chromosome))
                 => (outcome.status = UnknownContig /\ outcome.msg = << a.chromosome, l >>)
           /\ l = << >>
                 => (KeyDerived /\ outcome.keys[1].chromosome = a.chromosome)

\* an unlisted contig under the list (2, 1)
C8_Witness ==
    /\ pc = "compared"
    /\ ctor.contigs = Some(<< 2, 1 >>)
    /\ rec[1].locatable /\ rec[1].chromosome = 3
    /\ outcome.status = UnknownContig
    /\ outcome.msg = << 3, << 2, 1 >> >>

-----------------------------------------------------------------------------
(* The checker driven by a caller: find the order by name, build it, build *)
(* the checker, add records; errors of add are caught and adding goes on.  *)

FindNames ==
    { "Unknown", "Unsorted", "BarcodesAndCoordinate", "Coordinate",
      "coordinate", "UNSORTED", "Coordinates", "" }

\* records given to add
CheckerRecords ==
    { NewRecord(TRUE, c, s, 0, t, 0) : c \in Chromosomes, s \in {0, 1}, t \in Barcodes }
    \cup { NewRecord(TRUE, None, 0, 0, 0, 0), NotLocatable }

Init ==
    /\ pc = "find"
    /\ sort_order_name = ""
    /\ found = NoFound
    /\ sort_order = NoOrder
    /\ ctor = NoCtor
    /\ _sort_f = ""
    /\ _last_rec = Absent
    /\ rec = << >>
    /\ prev = Absent
    /\ outcome = NoOutcome
    /\ accepted = << >>
    /\ nadds = 0
    /\ _iter = << >>
    /\ wrapped = << >>
    /\ yielded = << >>
    /\ raised = FALSE

\* cls = SortOrder.find(n)
Find(n) ==
    /\ pc = "find"
    /\ sort_order_name' = n
    /\ found' = find(n)
    /\ pc' = IF found'.error # "" THEN "find_raised" ELSE "found"
    /\ UNCHANGED << sort_order, ctor, _sort_f, _last_rec, rec, prev, outcome, accepted,
                    nadds, _iter, wrapped, yielded, raised >>

\* order = cls(fasta_index, contigs)
Construct(args) ==
    /\ pc = "found"
    /\ sort_order' = NewSortOrder(found.cls, args.fasta_index, args.contigs)
    /\ ctor' = args
    /\ pc' = "order"
    /\ UNCHANGED << sort_order_name, found, _sort_f, _last_rec, rec, prev, outcome,
                    accepted, nadds, _iter, wrapped, yielded, raised >>

\* checker = SortOrderChecker(order)
NewChecker ==
    /\ pc = "order"
    /\ _last_rec' = SortOrderChecker_init(sort_order)._last_rec
    /\ _sort_f' = SortOrderChecker_init(sort_order)._sort_f
    /\ pc' = "checker"
    /\ UNCHANGED << sort_order_name, found, sort_order, ctor, rec, prev, outcome,
                    accepted, nadds, _iter, wrapped, yielded, raised >>

\* checker.add(r), an error caught by the caller
Add(r) ==
    /\ pc = "checker"
    /\ nadds < MaxAdds
    /\ LET result == iadd(_sort_f, sort_order, _last_rec, r)
       IN  /\ _last_rec' = result._last_rec
           /\ outcome' = Outcome(result)
           /\ accepted' = IF result.status = "ok" THEN Append(accepted, r) ELSE accepted
    /\ rec' = << r >>
    /\ prev' = _last_rec
    /\ nadds' = nadds + 1
    /\ UNCHANGED << pc, sort_order_name, found, sort_order, ctor, _sort_f, _iter,
                    wrapped, yielded, raised >>

FindOrder == pc = "find" /\ \E n \in FindNames : Find(n)

ConstructOrder ==
    /\ pc = "found"
    /\ \E args \in (IF found.cls \in {"class Coordinate", "class BarcodesAndCoordinate"}
                    THEN CtorArgs ELSE {NoCtor}) : Construct(args)

AddRecord == pc = "checker" /\ \E r \in CheckerRecords : Add(r)

Next == FindOrder \/ ConstructOrder \/ NewChecker \/ AddRecord

Spec == Init /\ [][Next]_vars

-----------------------------------------------------------------------------
(* Properties of find and of the checker (Spec) *)

Registered == { "Unknown", "Unsorted", "BarcodesAndCoordinate", "Coordinate" }

InSeq(q, x) == \E i \in 1..Len(q) : q[i] = x

\* C7: find returns for each registered name the class of that name, and for
\* any other string fails with an error naming every registered name; it
\* returns no class then.
C7_FindExact ==
    pc # "find"
    => /\ sort_order_name \in Registered
             => (found.error = "" /\ found.cls # "" /\ name(found.cls) = sort_order_name)
       /\ sort_order_name \notin Registered
             => /\ found.error = "ValueError: Could not find sort order"
                /\ found.cls = ""
                /\ found.msg_name = sort_order_name
                /\ \A n \in Registered : InSeq(found.msg_options, n)
                /\ pc = "find_raised"

\* a case variant of a registered name is refused
C7_Witness ==
    /\ pc = "find_raised"
    /\ sort_order_name = "coordinate"
    /\ found.cls = ""
    /\ found.msg_options = << "Unknown", "Unsorted", "BarcodesAndCoordinate", "Coordinate" >>

AddDone == pc = "checker" /\ nadds > 0

\* both keys of the last add derive
KeysDerive ==
    /\ AddDone /\ Len(prev) > 0
    /\ key(_sort_f, sort_order, rec[1]).error = ""
    /\ key(_sort_f, sort_order, prev[1]).error = ""

\* three-way comparison of the key of the record given with that of the previous record
LastDiff ==
    cmp(_sort_f, key(_sort_f, sort_order, rec[1]), key(_sort_f, sort_order, prev[1]))

\* C1: under Coordinate an add whose record's key is not less than the key of
\* the previous accepted record is accepted, and one whose key is less fails
\* with the order-violation error carrying the previous and the offending record.
C1_CoordinateChecker ==
    (sort_order.cls = "class Coordinate" /\ KeysDerive)
    => /\ LastDiff >= 0 => (outcome.status = "ok" /\ _last_rec = rec
                            /\ accepted # << >> /\ accepted[Len(accepted)] = rec[1])
       /\ LastDiff < 0 => (outcome.status = OrderViolation
                           /\ outcome.msg = << prev[1], rec[1] >>)

\* under the list (2, 1) a record on contig 2 after one on contig 1 is out of order
C1_Witness ==
    /\ AddDone
    /\ sort_order.cls = "class Coordinate"
    /\ sort_order._contigs = Some(<< 2, 1 >>)
    /\ Len(prev) > 0 /\ prev[1].chromosome = 1 /\ rec[1].chromosome = 2
    /\ prev[1].start = 0 /\ rec[1].start = 1
    /\ outcome.status = OrderViolation
    /\ outcome.msg = << prev[1], rec[1] >>

C9_AcceptedSorted ==
    (pc = "checker"
     /\ sort_order.cls \in {"class Coordinate", "class BarcodesAndCoordinate"})
    => /\ \A i, j \in 1..Len(accepted) :
             i < j => /\ key(_sort_f, sort_order, accepted[i]).error = ""
                      /\ key(_sort_f, sort_order, accepted[j]).error = ""
                      /\ cmp(_sort_f, key(_sort_f, sort_order, accepted[j]),
                                      key(_sort_f, sort_order, accepted[i])) >= 0
       /\ _last_rec = IF accepted = << >> THEN Absent ELSE Some(accepted[Len(accepted)])
       /\ (nadds > 0 /\ outcome.status = "ok") => _last_rec = rec
       /\ (nadds > 0 /\ outcome.status # "ok") => (_last_rec = prev /\ Len(accepted) < nadds)

\* the second of three adds was rejected, the third was compared with the first and accepted
C9_Witness ==
    /\ AddDone
    /\ sort_order.cls = "class BarcodesAndCoordinate"
    /\ nadds = 3 /\ Len(accepted) = 2
    /\ outcome.status = "ok"
    /\ LastDiff > 0
    /\ prev = Some(accepted[1])

\* the first accepted record has no key under the order
FirstHasNoKey ==
    /\ accepted # << >>
    /\ \/ ~accepted[1].locatable
       \/ ~InList(SuppliedList(ctor), accepted[1].chromosome)

KeyErrors == { UnknownContig, MissingCapability }

\* C10 as stated: the first add accepts any record; under Coordinate with a
\* supplied contig list, after a first record that is unlisted or not
\* Locatable every later add fails with a key error and changes nothing.
C10_Original ==
    /\ (pc = "checker" /\ nadds = 1) => (outcome.status = "ok" /\ _last_rec = rec)
    /\ (pc = "checker" /\ nadds > 1 /\ sort_order.cls = "class Coordinate"
        /\ Supplied(ctor) /\ FirstHasNoKey)
       => (outcome.status \in KeyErrors /\ Len(accepted) = 1
           /\ _last_rec = Some(accepted[1]))

\* C10 amended: the same with a supplied non-empty contig list (an empty list
\* is treated as no list: no chromosome is looked up).
C10_FirstAddUnchecked ==
    /\ (pc = "checker" /\ nadds = 1) => (outcome.status = "ok" /\ _last_rec = rec)
    /\ (pc = "checker" /\ nadds > 1 /\ sort_order.cls = "class Coordinate"
        /\ SuppliedList(ctor) # << >> /\ FirstHasNoKey)
       => (outcome.status \in KeyErrors /\ Len(accepted) = 1
           /\ _last_rec = Some(accepted[1]))

\* an unlisted first record was accepted and a later, listed record fails on it
C10_Witness ==
    /\ pc = "checker" /\ nadds = 3
    /\ sort_order.cls = "class Coordinate"
    /\ SuppliedList(ctor) = << 2, 1 >>
    /\ accepted = << NewRecord(TRUE, 3, 0, 0, 0, 0) >>
    /\ rec[1].locatable /\ rec[1].chromosome = 1
    /\ outcome.status = UnknownContig
    /\ outcome.msg = << 3, << 2, 1 >> >>

-----------------------------------------------------------------------------
(* The enforcing iterator over a wrapped sequence; the caller keeps calling *)
(* next, also after an error and after the end.                             *)

IterRecords ==
    { NewRecord(TRUE, c, s, 0, 0, 0) : c \in Chromosomes, s \in {0, 1} }
    \cup { NewRecord(TRUE, 1, 0, 0, 1, 0), NotLocatable }

IterOrders ==
    { NewSortOrder("class Unknown", Absent, Absent) }
    \cup { NewSortOrder(cls, Absent, c) :
             cls \in {"class Coordinate", "class BarcodesAndCoordinate"},
             c \in {Absent, Some(<< 2, 1 >>)} }

SeqsUpTo(S, n) == UNION { [1..k -> S] : k \in 0..n }

\* it = SortOrderEnforcingIterator(iter(w), order)
InitIter ==
    /\ pc = "iterating"
    /\ sort_order_name = ""
    /\ found = NoFound
    /\ sort_order \in IterOrders
    /\ ctor = [fasta_index |-> Absent, contigs |-> sort_order._contigs]
    /\ _sort_f = SortOrderChecker_init(sort_order)._sort_f
    /\ _last_rec = SortOrderChecker_init(sort_order)._last_rec
    /\ rec = << >>
    /\ prev = Absent
    /\ outcome = NoOutcome
    /\ accepted = << >>
    /\ nadds = 0
    /\ wrapped \in SeqsUpTo(IterRecords, MaxLen)
    /\ _iter = wrapped
    /\ yielded = << >>
    /\ raised = FALSE

\* it.next(), an error or the end signal caught by the caller
IterNext ==
    /\ pc = "iterating"
    /\ nadds <= MaxLen
    /\ LET result == next(_sort_f, sort_order, _last_rec, _iter)
       IN  /\ _iter' = result._iter
           /\ _last_rec' = result._last_rec
           /\ outcome' = Outcome(result)
           /\ rec' = result.pulled
           /\ yielded' = yielded \o result.returned
           /\ accepted' = accepted \o result.returned
           /\ raised' = (raised \/ result.status \notin {"ok", "StopIteration"})
    /\ prev' = _last_rec
    /\ nadds' = nadds + 1
    /\ UNCHANGED << pc, sort_order_name, found, sort_order, ctor, _sort_f, wrapped >>

NextIter == IterNext

SpecIter == InitIter /\ [][NextIter]_vars

-----------------------------------------------------------------------------
(* Properties of the enforcing iterator (SpecIter) *)

Pulled == Len(wrapped) - Len(_iter)

\* element i of the wrapped sequence is in order after element i - 1
InOrder(i) ==
    _sort_f # "None"
    => /\ key(_sort_f, sort_order, wrapped[i]).error = ""
       /\ key(_sort_f, sort_order, wrapped[i - 1]).error = ""
       /\ cmp(_sort_f, key(_sort_f, sort_order, wrapped[i]),
                       key(_sort_f, sort_order, wrapped[i - 1])) >= 0

C3_Inv ==
    pc = "iterating"
    => \* one wrapped element is pulled per call, in order, until none is left
       /\ Pulled = (IF nadds < Len(wrapped) THEN nadds ELSE Len(wrapped))
       /\ _iter = SubSeq(wrapped, Pulled + 1, Len(wrapped))
       \* until a call raises, what was yielded is what was pulled
       /\ ~raised => yielded = SubSeq(wrapped, 1, Pulled)
       \* and no element yielded till then was out of order
       /\ ~raised => \A i \in 2..Pulled : InOrder(i)
       \* the first call that raises is the one that pulled the first element out of order
       /\ (raised /\ Len(yielded) = Pulled - 1 /\ outcome.status \notin {"ok", "StopIteration"})
             => (Pulled > 1 /\ ~InOrder(Pulled) /\ yielded = SubSeq(wrapped, 1, Pulled - 1))
       \* past the end the end signal is passed on
       /\ nadds > Len(wrapped) => outcome.status = "StopIteration"
       /\ (nadds > 0 /\ outcome.status = "StopIteration") => nadds > Len(wrapped)

C3_Step ==
    pc = "iterating"
    => \* a call either returns the element it pulled or leaves what was yielded as it is
       /\ outcome'.status = "ok" => yielded' = Append(yielded, Head(_iter))
       /\ outcome'.status # "ok" => yielded' = yielded
       /\ _iter # << >> => _iter' = Tail(_iter)
       /\ _iter = << >> => (outcome'.status = "StopIteration" /\ _iter' = _iter
                            /\ _last_rec' = _last_rec)

\* C3: the enforcing iterator pulls one wrapped element per next call and
\* yields the wrapped elements in order; the first element out of order makes
\* its call raise instead of yielding it and leaves what was yielded as it was;
\* at the end of the wrapped sequence the end signal is passed on.
C3_IteratorPassThrough == [][C3_Step]_vars /\ []C3_Inv

\* two elements yielded, the third out of order and refused, then the end signal
C3_Witness ==
    /\ pc = "iterating"
    /\ sort_order.cls = "class Coordinate"
    /\ Len(wrapped) = 3
    /\ nadds = 4
    /\ yielded = SubSeq(wrapped, 1, 2)
    /\ raised
    /\ key(_sort_f, sort_order, wrapped[3]).error = ""
    /\ outcome.status = "StopIteration"

====
